---------------------------- MODULE Spec2Model ----------------------------
(***************************************************************************)
(* Model of src/src/ultimate_final_fix.py: the modification index          *)
(* (get_modifications), the text substitution (apply_modifications) and    *)
(* the page reconstruction (reconstruct_with_exact_positions).             *)
(*                                                                         *)
(* Strings are sequences of symbols.  Every string literal of the source   *)
(* ("Address:", "Lorem ipsum", "Bold", ...) is one symbol; " " and "\n"    *)
(* are the whitespace symbols; any other symbol is ordinary text.          *)
(***************************************************************************)
EXTENDS Integers, Sequences, FiniteSets, TLC

VARIABLES
    pc,             \* position of the running function
    phase,          \* phase of the run (Idle, Extracting, ...)
    doc,            \* paragraphs of output/enhanced_modified.docx
    mappings,       \* the dict built by get_modifications, in insertion order
    page,           \* text_blocks["blocks"] of the source page
    image_list,     \* original_page.get_images(full=True), as xrefs
    cur,            \* <<block_idx, line_idx, span_idx>> of the text loops
    original_text,  \* span['text'] of the current span (input of apply_modifications)
    modified_text,  \* result of apply_modifications
    draws,          \* calls of new_page.insert_text, in order
    img_idx,        \* index of the image loop
    rect_idx,       \* index of the rectangle loop
    image_bytes,    \* image_data["image"] of the current image
    extracts,       \* calls of original_doc.extract_image, in order (xrefs)
    img_draws,      \* calls of new_page.insert_image, in order
    saved,          \* number of times new_doc.save returned
    original_open,  \* original_doc is open
    new_open,       \* new_doc is open
    failed_at,      \* the step that raised, or "none"
    font_name,      \* span['font'] handed to the font mapping
    color,          \* span['color'] handed to the colour conversion
    font,           \* the PyMuPDF font chosen
    text_color      \* the RGB triple chosen (in 255ths)

vars == <<pc, phase, doc, mappings, page, image_list, cur, original_text,
          modified_text, draws, img_idx, rect_idx, image_bytes, extracts,
          img_draws, saved, original_open, new_open, failed_at, font_name,
          color, font, text_color>>

-----------------------------------------------------------------------------
(* Bounds of the model *)

MaxLen == 3          \* longest text handed to apply_modifications
MaxEntries == 2      \* most entries of a map handed to apply_modifications
MaxParLen == 3       \* longest paragraph of the companion document
MaxPars == 2         \* most paragraphs of the companion document
MaxFontLen == 3      \* longest font descriptor
MaxPageSize == 5     \* most nodes (blocks + lines + spans) of a page
MaxImages == 2       \* most entries of the page's image list

-----------------------------------------------------------------------------
(* Strings *)

Whitespace == {" ", "\n"}

SeqsUpTo(S, n) == UNION {[1..k -> S] : k \in 0..n}

\* str.strip()
RECURSIVE lstrip(_)
lstrip(s) ==
    IF s # <<>> /\ Head(s) \in Whitespace THEN lstrip(Tail(s)) ELSE s

RECURSIVE rstrip(_)
rstrip(s) ==
    IF s # <<>> /\ s[Len(s)] \in Whitespace
    THEN rstrip(SubSeq(s, 1, Len(s) - 1))
    ELSE s

strip(s) == rstrip(lstrip(s))

\* sub occurs in s at position p
MatchAt(s, sub, p) ==
    /\ p >= 1
    /\ p + Len(sub) - 1 <= Len(s)
    /\ SubSeq(s, p, p + Len(sub) - 1) = sub

\* the operator "sub in s"
Contains(s, sub) == \E p \in 1..(Len(s) + 1) : MatchAt(s, sub, p)

\* ' '.join(parts)
RECURSIVE join(_)
join(parts) ==
    IF parts = <<>> THEN <<>>
    ELSE IF Len(parts) = 1 THEN parts[1]
    ELSE parts[1] \o <<" ">> \o join(Tail(parts))

\* str.replace(old, new): every non-overlapping occurrence, scanning from the left
RECURSIVE str_replace(_, _, _)
str_replace(s, old, new) ==
    IF old = <<>>
    THEN IF s = <<>> THEN new
         ELSE new \o <<Head(s)>> \o str_replace(Tail(s), old, new)
    ELSE IF Len(s) < Len(old) THEN s
    ELSE IF SubSeq(s, 1, Len(old)) = old
    THEN new \o str_replace(SubSeq(s, Len(old) + 1, Len(s)), old, new)
    ELSE <<Head(s)>> \o str_replace(Tail(s), old, new)

-----------------------------------------------------------------------------
(* Dicts: a sequence of <<key, value>> pairs in insertion order *)

Keys(m) == {m[i][1] : i \in 1..Len(m)}

Lookup(m, k) == LET i == CHOOSE j \in 1..Len(m) : m[j][1] = k IN m[i][2]

\* m[k] = v: a present key keeps its place and takes the new value
dict_set(m, k, v) ==
    IF k \in Keys(m)
    THEN [i \in 1..Len(m) |-> IF m[i][1] = k THEN <<k, v>> ELSE m[i]]
    ELSE Append(m, <<k, v>>)

-----------------------------------------------------------------------------
(* get_modifications *)

OriginalAddress == <<"123 Sample Street, Example City, EX 12345">>
OriginalPhone == <<"(555) 123-4567">>
OriginalEmail == <<"contact@example.com">>
LoremIpsum == <<"Lorem ipsum">>
SampleText == <<"Sample text">>

\* re.search(label + r'\s*(.+)', text): the group of the leftmost match, or
\* <<>> when there is none (a group is never empty).  \s* is greedy and gives
\* back what (.+) needs; "." matches anything but "\n".
GroupStart(text, i) ==
    {j \in (i + 1)..Len(text) :
        /\ \A k \in (i + 1)..(j - 1) : text[k] \in Whitespace
        /\ text[j] # "\n"}

LineEnd(text, j) ==
    CHOOSE e \in j..Len(text) :
        /\ \A k \in j..e : text[k] # "\n"
        /\ e = Len(text) \/ text[e + 1] = "\n"

Max(S) == CHOOSE x \in S : \A y \in S : y <= x
Min(S) == CHOOSE x \in S : \A y \in S : x <= y

re_search(label, text) ==
    LET starts == {i \in 1..Len(text) :
                      text[i] = label /\ GroupStart(text, i) # {}}
    IN  IF starts = {} THEN <<>>
        ELSE LET i == Min(starts)
                 j == Max(GroupStart(text, i))
             IN  SubSeq(text, j, LineEnd(text, j))

\* lines 15-28: one paragraph of the loop
scan_paragraph(m, paragraph) ==
    LET text == strip(paragraph)
        field(label, original) ==
            LET group == re_search(label, text)
            IN  IF group # <<>> THEN dict_set(m, original, strip(group)) ELSE m
    IN  IF Contains(text, <<"Address:">>) THEN field("Address:", OriginalAddress)
        ELSE IF Contains(text, <<"Phone:">>) THEN field("Phone:", OriginalPhone)
        ELSE IF Contains(text, <<"Email:">>) THEN field("Email:", OriginalEmail)
        ELSE m

RECURSIVE scan_paragraphs(_, _)
scan_paragraphs(m, paragraphs) ==
    IF paragraphs = <<>> THEN m
    ELSE scan_paragraphs(scan_paragraph(m, Head(paragraphs)), Tail(paragraphs))

get_modifications(d) ==
    LET m == scan_paragraphs(<<>>, d)
        joined == join(d)
    IN  IF Contains(joined, SampleText) /\ ~Contains(joined, LoremIpsum)
        THEN dict_set(m, LoremIpsum, SampleText)
        ELSE m

-----------------------------------------------------------------------------
(* apply_modifications *)

RECURSIVE apply_modifications_reversed(_, _)
apply_modifications_reversed(text, m) ==
    IF m = <<>> THEN text
    ELSE apply_modifications_reversed(
             str_replace(text, m[Len(m)][1], m[Len(m)][2]),
             SubSeq(m, 1, Len(m) - 1))

apply_modifications_hardcoded(text, m) ==
    str_replace(text, LoremIpsum, SampleText)

RECURSIVE apply_modifications(_, _)
apply_modifications(text, m) ==
    IF m = <<>> THEN text
    ELSE apply_modifications(str_replace(text, m[1][1], m[1][2]), Tail(m))

-----------------------------------------------------------------------------
(* Font and colour of a span, lines 91-103 *)

DarkBlue == 139

map_font_oblique_first(name) ==
    IF Contains(name, <<"Oblique">>) THEN "helvetica-oblique"
    ELSE IF Contains(name, <<"Bold">>) THEN "helvetica-bold"
    ELSE "helvetica"

map_font(name) ==
    IF Contains(name, <<"Bold">>) THEN "helvetica-bold"
    ELSE IF Contains(name, <<"Oblique">>) THEN "helvetica-oblique"
    ELSE "helvetica"

convert_color(c) == IF c = DarkBlue THEN <<0, 0, DarkBlue>> ELSE <<0, 0, 0>>

-----------------------------------------------------------------------------
(* The source page *)

TopLeft(rect) == <<rect[1], rect[2]>>

SpanPool ==
    { [text |-> <<" ">>, bbox |-> <<50, 30, 60, 42>>,
       font |-> <<"Helvetica">>, size |-> 12, color |-> 0],
      [text |-> OriginalAddress, bbox |-> <<50, 50, 200, 70>>,
       font |-> <<"Helvetica", "-", "Bold">>, size |-> 18, color |-> 139],
      [text |-> <<"Lorem ipsum", " ", "x">>, bbox |-> <<50, 100, 400, 110>>,
       font |-> <<"Helvetica", "-", "Oblique">>, size |-> 10, color |-> 255] }

\* a block of get_text("dict") without "lines": an image block
ImageBlock == [type |-> 1]

HasLines(block) == "lines" \in DOMAIN block

RECURSIVE LineSeqs(_)
LineSeqs(n) ==
    IF n < 1 THEN {<<>>}
    ELSE {<<>>} \cup
         UNION { { <<[spans |-> ss]>> \o rest : rest \in LineSeqs(n - 1 - Len(ss)) } :
                 ss \in SeqsUpTo(SpanPool, n - 1) }

RECURSIVE LinesSize(_)
LinesSize(ls) ==
    IF ls = <<>> THEN 0 ELSE 1 + Len(Head(ls).spans) + LinesSize(Tail(ls))

BlockSize(block) == IF HasLines(block) THEN 1 + LinesSize(block.lines) ELSE 1

BlocksUpTo(n) ==
    {ImageBlock} \cup {[type |-> 0, lines |-> ls] : ls \in LineSeqs(n - 1)}

RECURSIVE BlockSeqs(_)
BlockSeqs(n) ==
    IF n < 1 THEN {<<>>}
    ELSE {<<>>} \cup
         UNION { { <<b>> \o rest : rest \in BlockSeqs(n - BlockSize(b)) } :
                 b \in BlocksUpTo(n) }

Pages == BlockSeqs(MaxPageSize)

\* the images of the page: xref 1 is placed twice, xref 2 once
Xrefs == {1, 2}
extract_image(xref) == IF xref = 1 THEN "bytes-of-1" ELSE "bytes-of-2"
get_image_rects(xref) ==
    IF xref = 1 THEN << <<50, 150, 150, 250>>, <<300, 150, 400, 250>> >>
    ELSE << <<50, 300, 150, 400>> >>

ImageLists == SeqsUpTo(Xrefs, MaxImages)

-----------------------------------------------------------------------------
(* The loops over blocks, lines and spans, lines 70-78: the first span at or
   after <<b, l, s>> that is drawn, or <<Len(pg) + 1, 1, 1>> past the last *)

RECURSIVE NextPosNoSkip(_, _, _, _)
NextPosNoSkip(pg, b, l, s) ==
    IF b > Len(pg) THEN <<Len(pg) + 1, 1, 1>>
    ELSE IF ~HasLines(pg[b]) THEN NextPosNoSkip(pg, b + 1, 1, 1)
    ELSE IF l > Len(pg[b].lines) THEN NextPosNoSkip(pg, b + 1, 1, 1)
    ELSE IF s > Len(pg[b].lines[l].spans) THEN NextPosNoSkip(pg, b, l + 1, 1)
    ELSE <<b, l, s>>

RECURSIVE NextPos(_, _, _, _)
NextPos(pg, b, l, s) ==
    IF b > Len(pg) THEN <<Len(pg) + 1, 1, 1>>
    ELSE IF ~HasLines(pg[b]) THEN NextPos(pg, b + 1, 1, 1)
    ELSE IF l > Len(pg[b].lines) THEN NextPos(pg, b + 1, 1, 1)
    ELSE IF s > Len(pg[b].lines[l].spans) THEN NextPos(pg, b, l + 1, 1)
    ELSE IF strip(pg[b].lines[l].spans[s].text) = <<>>
    THEN NextPos(pg, b, l, s + 1)
    ELSE <<b, l, s>>

SpanAt(pg, p) == pg[p[1]].lines[p[2]].spans[p[3]]

PastLast(pg, p) == p[1] > Len(pg)

-----------------------------------------------------------------------------
(* reconstruct_with_exact_positions, lines 43-141 *)

RunDocs ==
    { <<>>,
      << <<"Address:", " ", "x">>, <<"Sample text">> >> }

\* values of the variables no step has written yet
NoRunYet ==
    /\ phase = "Idle"
    /\ cur = <<1, 1, 1>>
    /\ draws = <<>>
    /\ img_idx = 1
    /\ rect_idx = 1
    /\ image_bytes = "none"
    /\ extracts = <<>>
    /\ img_draws = <<>>
    /\ saved = 0
    /\ original_open = FALSE
    /\ new_open = FALSE
    /\ failed_at = "none"

NoSpanYet ==
    /\ original_text = <<>>
    /\ modified_text = <<>>
    /\ font_name = <<>>
    /\ color = 0
    /\ font = "none"
    /\ text_color = <<0, 0, 0>>

Init ==
    /\ pc = "get_modifications"
    /\ doc \in RunDocs
    /\ mappings = <<>>
    /\ page \in Pages
    /\ image_list \in ImageLists
    /\ NoRunYet
    /\ NoSpanYet

inputs == <<doc, page, image_list>>
span_vars == <<original_text, modified_text, font_name, color, font, text_color>>
image_vars == <<img_idx, rect_idx, image_bytes, extracts, img_draws>>
handles == <<original_open, new_open>>

\* an exception leaves the function: nothing catches it, nothing runs after it
RaiseAndGoOn(step) ==
    /\ failed_at' = step
    /\ UNCHANGED <<pc, phase, inputs, mappings, cur, span_vars, draws,
                   image_vars, saved, handles>>

Raise(step) ==
    /\ pc' = "aborted"
    /\ failed_at' = step
    /\ UNCHANGED <<phase, inputs, mappings, cur, span_vars, draws,
                   image_vars, saved, handles>>

\* line 49: the phase of the run is still Idle, the source is not yet opened
GetModifications ==
    /\ pc = "get_modifications"
    /\ \/ /\ mappings' = get_modifications(doc)
          /\ pc' = "open"
          /\ UNCHANGED <<phase, inputs, cur, span_vars, draws, image_vars,
                         saved, handles, failed_at>>
       \/ Raise("get_modifications")

\* lines 55-56
OpenSource ==
    /\ pc = "open"
    /\ \/ /\ original_open' = TRUE
          /\ phase' = "Extracting"
          /\ pc' = "new_page"
          /\ UNCHANGED <<inputs, mappings, cur, span_vars, draws, image_vars,
                         saved, new_open, failed_at>>
       \/ Raise("open")

\* lines 59-60
NewPage ==
    /\ pc = "new_page"
    /\ new_open' = TRUE
    /\ pc' = "get_text"
    /\ UNCHANGED <<phase, inputs, mappings, cur, span_vars, draws, image_vars,
                   saved, original_open, failed_at>>

\* lines 65-78: the extraction, then up to the first span that is drawn
GetText ==
    /\ pc = "get_text"
    /\ \/ /\ cur' = NextPos(page, 1, 1, 1)
          /\ pc' = IF PastLast(page, cur') THEN "get_images" ELSE "apply"
          /\ UNCHANGED <<phase, inputs, mappings, span_vars, draws, image_vars,
                         saved, handles, failed_at>>
       \/ Raise("get_text")

\* lines 76-103: the text, the font and the colour of the span
Substitute ==
    /\ pc = "apply"
    /\ LET span == SpanAt(page, cur) IN
         /\ original_text' = span.text
         /\ modified_text' = apply_modifications(span.text, mappings)
         /\ font_name' = span.font
         /\ color' = span.color
         /\ font' = map_font(span.font)
         /\ text_color' = convert_color(span.color)
    /\ phase' = "Substituting"
    /\ pc' = "insert_text"
    /\ UNCHANGED <<inputs, mappings, cur, draws, image_vars, saved, handles,
                   failed_at>>

\* lines 106-112, then lines 70-78 up to the next span that is drawn
InsertText ==
    /\ pc = "insert_text"
    /\ \/ /\ draws' = Append(draws,
                       [point |-> TopLeft(SpanAt(page, cur).bbox),
                        text |-> modified_text,
                        fontname |-> font,
                        fontsize |-> SpanAt(page, cur).size,
                        color |-> text_color])
          /\ phase' = "DrawingText"
          /\ cur' = NextPos(page, cur[1], cur[2], cur[3] + 1)
          /\ pc' = IF PastLast(page, cur') THEN "get_images" ELSE "apply"
          /\ UNCHANGED <<inputs, mappings, span_vars, image_vars, saved,
                         handles, failed_at>>
       \/ Raise("insert_text")

\* after the last rectangle of image i: the next image, or the save
AfterImage(i) == IF i + 1 > Len(image_list) THEN "save" ELSE "extract_image"

\* lines 121-122
GetImages ==
    /\ pc = "get_images"
    /\ phase' = "DrawingImages"
    /\ img_idx' = 1
    /\ pc' = AfterImage(0)
    /\ UNCHANGED <<inputs, mappings, cur, span_vars, draws, rect_idx,
                   image_bytes, extracts, img_draws, saved, handles, failed_at>>

\* lines 124-128
ExtractImage ==
    /\ pc = "extract_image"
    /\ \/ /\ image_bytes' = extract_image(image_list[img_idx])
          /\ extracts' = Append(extracts, image_list[img_idx])
          /\ rect_idx' = 1
          /\ IF Len(get_image_rects(image_list[img_idx])) = 0
             THEN /\ img_idx' = img_idx + 1
                  /\ pc' = AfterImage(img_idx)
             ELSE /\ img_idx' = img_idx
                  /\ pc' = "insert_image"
          /\ UNCHANGED <<phase, inputs, mappings, cur, span_vars, draws,
                         img_draws, saved, handles, failed_at>>
       \/ Raise("extract_image")

\* lines 132-134
InsertImage ==
    /\ pc = "insert_image"
    /\ \/ /\ img_draws' = Append(img_draws,
                [rect |-> get_image_rects(image_list[img_idx])[rect_idx],
                 stream |-> image_bytes])
          /\ IF rect_idx + 1 > Len(get_image_rects(image_list[img_idx]))
             THEN /\ rect_idx' = 1
                  /\ img_idx' = img_idx + 1
                  /\ pc' = AfterImage(img_idx)
             ELSE /\ rect_idx' = rect_idx + 1
                  /\ img_idx' = img_idx
                  /\ pc' = "insert_image"
          /\ UNCHANGED <<phase, inputs, mappings, cur, span_vars, draws,
                         image_bytes, extracts, saved, handles, failed_at>>
       \/ Raise("insert_image")

SaveAgain ==
    /\ pc = "save"
    /\ \/ /\ saved' = saved + 1
          /\ phase' = "Persisted"
          /\ pc' = IF saved = 0 THEN "save" ELSE "close"
          /\ UNCHANGED <<inputs, mappings, cur, span_vars, draws, image_vars,
                         handles, failed_at>>
       \/ Raise("save")

\* line 137
Save ==
    /\ pc = "save"
    /\ \/ /\ saved' = saved + 1
          /\ phase' = "Persisted"
          /\ pc' = "close"
          /\ UNCHANGED <<inputs, mappings, cur, span_vars, draws, image_vars,
                         handles, failed_at>>
       \/ Raise("save")

\* lines 140-141
Close ==
    /\ pc = "close"
    /\ original_open' = FALSE
    /\ new_open' = FALSE
    /\ phase' = "Idle"
    /\ pc' = "done"
    /\ UNCHANGED <<inputs, mappings, cur, span_vars, draws, image_vars, saved,
                   failed_at>>

Next ==
    \/ GetModifications
    \/ OpenSource
    \/ NewPage
    \/ GetText
    \/ Substitute
    \/ InsertText
    \/ GetImages
    \/ ExtractImage
    \/ InsertImage
    \/ Save
    \/ Close

Spec == Init /\ [][Next]_vars

-----------------------------------------------------------------------------
(* apply_modifications on its own: any text, any map with distinct keys *)

ApplyKeys == { <<"a">>, <<"b">>, <<"a", "a">>, <<"a", "b">> }
ApplyValues == { <<>>, <<"b">>, <<"a", "a">>, <<"b", "a">> }

ApplyMaps ==
    {m \in SeqsUpTo(ApplyKeys \X ApplyValues, MaxEntries) :
        \A i, j \in 1..Len(m) : i # j => m[i][1] # m[j][1]}

NoPage ==
    /\ page = <<>>
    /\ image_list = <<>>
    /\ NoRunYet

InitApply ==
    /\ pc = "apply_modifications"
    /\ doc = <<>>
    /\ mappings \in ApplyMaps
    /\ original_text \in SeqsUpTo({"a", "b"}, MaxLen)
    /\ modified_text = <<>>
    /\ font_name = <<>>
    /\ color = 0
    /\ font = "none"
    /\ text_color = <<0, 0, 0>>
    /\ NoPage

run_vars == <<phase, page, image_list, cur, draws, image_vars, saved, handles,
              failed_at>>

\* lines 37-41
ApplyModifications ==
    /\ pc = "apply_modifications"
    /\ modified_text' = apply_modifications(original_text, mappings)
    /\ pc' = "applied"
    /\ UNCHANGED <<doc, mappings, original_text, font_name, color, font,
                   text_color, run_vars>>

NextApply == ApplyModifications

SpecApply == InitApply /\ [][NextApply]_vars

-----------------------------------------------------------------------------
(* get_modifications on its own: any companion document *)

ParSymbols ==
    {"Address:", "Phone:", "Email:", "Sample text", "Lorem ipsum", " ", "\n", "x"}

Paragraphs == SeqsUpTo(ParSymbols, MaxParLen)

InitMods ==
    /\ pc = "get_modifications"
    /\ doc \in SeqsUpTo(Paragraphs, MaxPars)
    /\ mappings = <<>>
    /\ NoSpanYet
    /\ NoPage

\* lines 9-35
GetModificationsOnly ==
    /\ pc = "get_modifications"
    /\ mappings' = get_modifications(doc)
    /\ pc' = "returned"
    /\ UNCHANGED <<doc, span_vars, run_vars>>

NextMods == GetModificationsOnly

SpecMods == InitMods /\ [][NextMods]_vars

-----------------------------------------------------------------------------
(* The font mapping and the colour conversion on their own *)

FontSymbols == {"Helvetica", "-", "Bold", "Oblique"}
Colors == {0, 139, 255}

InitFont ==
    /\ pc = "map_font"
    /\ doc = <<>>
    /\ mappings = <<>>
    /\ original_text = <<>>
    /\ modified_text = <<>>
    /\ font_name \in SeqsUpTo(FontSymbols, MaxFontLen)
    /\ color \in Colors
    /\ font = "none"
    /\ text_color = <<0, 0, 0>>
    /\ NoPage

\* lines 87-103
MapFont ==
    /\ pc = "map_font"
    /\ font' = map_font(font_name)
    /\ text_color' = convert_color(color)
    /\ pc' = "mapped"
    /\ UNCHANGED <<doc, mappings, original_text, modified_text, font_name,
                   color, run_vars>>

NextFont == MapFont

SpecFont == InitFont /\ [][NextFont]_vars

-----------------------------------------------------------------------------
(* Properties of the run *)

Range(f) == {f[i] : i \in 1..Len(f)}

\* the text loops have ended, by the last span or by a later failure
TextLoopDone ==
    \/ pc \in {"get_images", "extract_image", "insert_image", "save", "close", "done"}
    \/ pc = "aborted" /\ failed_at \in {"extract_image", "insert_image", "save"}

\* the spans of the text blocks of a page, as <<block, line, span>> indices
TextPositions(pg) ==
    {p \in (1..Len(pg)) \X (1..MaxPageSize) \X (1..MaxPageSize) :
        /\ HasLines(pg[p[1]])
        /\ p[2] <= Len(pg[p[1]].lines)
        /\ p[3] <= Len(pg[p[1]].lines[p[2]].spans)}

NonBlankPositions(pg) ==
    {p \in TextPositions(pg) : strip(SpanAt(pg, p).text) # <<>>}

Before(p, q) ==
    \/ p[1] < q[1]
    \/ p[1] = q[1] /\ p[2] < q[2]
    \/ p[1] = q[1] /\ p[2] = q[2] /\ p[3] < q[3]

\* a set of positions in block/line/span order
InOrder(S) ==
    [k \in 1..Cardinality(S) |->
        CHOOSE p \in S : Cardinality({q \in S : Before(q, p)}) = k - 1]

Count(seq, x) == Cardinality({k \in 1..Len(seq) : seq[k] = x})

\* C1 (as claimed): whenever the run has ended, by success or by a failure at
\* any step, the source document and the output document are both closed.
HandlesReleasedOnEveryExit ==
    pc \in {"done", "aborted"} => ~original_open /\ ~new_open

\* C2 (as claimed): with an empty modification map the text draws of a finished
\* run correspond one to one, in order, to the spans of the source page, each
\* with the span's text and the span's top-left corner.
EmptyMapDrawsEverySourceSpan ==
    (pc = "done" /\ mappings = <<>>) =>
        LET all == InOrder(TextPositions(page)) IN
            /\ Len(draws) = Len(all)
            /\ \A k \in 1..Len(all) :
                   /\ draws[k].text = SpanAt(page, all[k]).text
                   /\ draws[k].point = <<SpanAt(page, all[k]).bbox[1],
                                         SpanAt(page, all[k]).bbox[2]>>

\* C2 (amended): with an empty modification map the text draws correspond one
\* to one, in order, to the spans of the source page that are not blank, each
\* with the span's text unchanged and anchored at the top-left corner of the
\* span's bounding box; blank spans have no draw.
EmptyMapDrawsNonBlankSpansUnchanged ==
    (TextLoopDone /\ mappings = <<>>) =>
        LET nonblank == InOrder(NonBlankPositions(page)) IN
            /\ Len(draws) = Len(nonblank)
            /\ \A k \in 1..Len(nonblank) :
                   /\ draws[k].text = SpanAt(page, nonblank[k]).text
                   /\ draws[k].point = <<SpanAt(page, nonblank[k]).bbox[1],
                                         SpanAt(page, nonblank[k]).bbox[2]>>

EmptyMapRunWithBlankSpan ==
    /\ pc = "done"
    /\ mappings = <<>>
    /\ Len(draws) >= 2
    /\ TextPositions(page) # NonBlankPositions(page)
    /\ \E k \in 1..Len(draws) : Contains(draws[k].text, LoremIpsum)

\* C3 (as claimed): on a finished run every image of the page that appears at
\* N rectangles has exactly N draws, one at each of its rectangles, each with
\* the bytes extracted from the source, and the output has as many image
\* placements as the source.
EveryImageDrawnOncePerRectangle ==
    pc = "done" =>
        /\ \A x \in Range(image_list) :
               LET rects == get_image_rects(x) IN
                   /\ Cardinality({k \in 1..Len(img_draws) :
                          img_draws[k].stream = extract_image(x)}) = Len(rects)
                   /\ \A r \in 1..Len(rects) :
                          Count(img_draws, [rect |-> rects[r],
                                            stream |-> extract_image(x)]) = 1
        /\ Len(img_draws) =
               Cardinality({<<x, r>> \in Xrefs \X (1..2) :
                   x \in Range(image_list) /\ r <= Len(get_image_rects(x))})

\* C4 (as claimed): during one run the bytes of each distinct image are
\* extracted at most once, and exactly once by the end of the image loop,
\* however many entries the image list holds for it.
EachImageExtractedOnce ==
    /\ \A x \in Xrefs : Count(extracts, x) <= 1
    /\ pc = "done" => \A x \in Range(image_list) : Count(extracts, x) = 1

\* C7 (as claimed): the phase changes only along
\* Idle -> Extracting -> Substituting -> DrawingText -> DrawingImages ->
\* Persisted -> Idle.
PhaseChain ==
    { <<"Idle", "Extracting">>, <<"Extracting", "Substituting">>,
      <<"Substituting", "DrawingText">>, <<"DrawingText", "DrawingImages">>,
      <<"DrawingImages", "Persisted">>, <<"Persisted", "Idle">> }

PhasesFollowTheChain ==
    [][phase' # phase => <<phase, phase'>> \in PhaseChain]_vars

\* C7 (amended): the phase changes only along the chain, except that
\* Substituting and DrawingText alternate once per drawn span (DrawingText ->
\* Substituting) and are skipped when no span is drawn (Extracting ->
\* DrawingImages); every text draw comes after a substitution and before the
\* first image extraction or image draw; the output is saved exactly once,
\* after the last text draw, extraction and image draw; a finished run is back
\* in Idle with the output saved.
PhasesFollowTheLoops ==
    /\ [][/\ phase' # phase =>
                <<phase, phase'>> \in PhaseChain \cup
                    { <<"DrawingText", "Substituting">>,
                      <<"Extracting", "DrawingImages">> }
          /\ draws' # draws =>
                /\ phase = "Substituting" /\ phase' = "DrawingText"
                /\ extracts = <<>> /\ img_draws = <<>>
          /\ (extracts' # extracts \/ img_draws' # img_draws) =>
                phase = "DrawingImages" /\ phase' = "DrawingImages"
          /\ saved' # saved =>
                saved = 0 /\ phase = "DrawingImages" /\ phase' = "Persisted"
          /\ saved # 0 =>
                draws' = draws /\ extracts' = extracts /\ img_draws' = img_draws
         ]_vars
    /\ [](pc = "done" => saved = 1 /\ phase = "Idle")

FinishedRunWithTextAndImages ==
    /\ pc = "done"
    /\ Len(draws) >= 2
    /\ Len(img_draws) >= 2
    /\ saved = 1

\* C9: the text draws are, in block/line/span order, one per span of a text
\* block whose text is not blank, each anchored at the top-left corner of the
\* span's bounding box with the span's font size, whatever the substitution
\* made of the text; blank spans and blocks without lines have no draw.
OneDrawPerNonBlankSpan ==
    LET nonblank == InOrder(NonBlankPositions(page)) IN
        /\ Len(draws) <= Len(nonblank)
        /\ \A k \in 1..Len(draws) :
               /\ draws[k].point = <<SpanAt(page, nonblank[k]).bbox[1],
                                     SpanAt(page, nonblank[k]).bbox[2]>>
               /\ draws[k].fontsize = SpanAt(page, nonblank[k]).size
        /\ pc \in {"apply", "insert_text"} =>
               /\ Len(draws) < Len(nonblank)
               /\ cur = nonblank[Len(draws) + 1]
        /\ TextLoopDone => Len(draws) = Len(nonblank)

SubstitutedRunWithSkippedSpans ==
    /\ pc = "done"
    /\ Len(draws) >= 2
    /\ TextPositions(page) # NonBlankPositions(page)
    /\ \E k \in 1..Len(draws) :
           draws[k].text # SpanAt(page, InOrder(NonBlankPositions(page))[k]).text

\* C10: once a step has failed the run is aborted: no draw, extraction, image
\* draw or save follows, the step is not taken again, and the run is never in
\* the Persisted phase.
FailureAbortsTheRun ==
    /\ [](failed_at # "none" =>
            pc = "aborted" /\ saved = 0 /\ phase # "Persisted")
    /\ [][pc = "aborted" =>
            /\ pc' = "aborted"
            /\ UNCHANGED <<mappings, cur, draws, image_vars, saved, handles,
                           phase, failed_at>>]_vars

AbortedWhileDrawingImages ==
    /\ pc = "aborted"
    /\ failed_at = "insert_image"
    /\ draws # <<>>
    /\ img_draws # <<>>

-----------------------------------------------------------------------------
(* Properties of apply_modifications *)

\* the occurrences of key in text that a scan from the left replaces: an
\* occurrence counts unless it overlaps an earlier one that counts
Occurrences(text, key) ==
    LET upto[p \in 0..Len(text)] ==
            IF p = 0 THEN {}
            ELSE IF /\ MatchAt(text, key, p)
                    /\ \A q \in upto[p - 1] : q + Len(key) <= p
                 THEN upto[p - 1] \cup {p}
                 ELSE upto[p - 1]
    IN  upto[Len(text)]

RECURSIVE Rewritten(_, _, _, _, _)
Rewritten(text, key, value, occ, p) ==
    IF p > Len(text) THEN <<>>
    ELSE IF p \in occ
    THEN value \o Rewritten(text, key, value, occ, p + Len(key))
    ELSE <<text[p]>> \o Rewritten(text, key, value, occ, p + 1)

ReplaceEvery(text, key, value) ==
    Rewritten(text, key, value, Occurrences(text, key), 1)

\* the text after the first n entries of the map
RECURSIVE AfterEntries(_, _, _)
AfterEntries(text, m, n) ==
    IF n = 0 THEN text
    ELSE ReplaceEvery(AfterEntries(text, m, n - 1), m[n][1], m[n][2])

\* C5: the result is the text after all entries, each entry replacing every
\* non-overlapping occurrence of its key in the output of the entries before
\* it; when no key occurs at any step the result is the input; the map is
\* left as it was.
SubstitutionFoldsInInsertionOrder ==
    /\ [](pc = "applied" =>
            /\ modified_text = AfterEntries(original_text, mappings, Len(mappings))
            /\ (\A n \in 1..Len(mappings) :
                    ~Contains(AfterEntries(original_text, mappings, n - 1),
                              mappings[n][1]))
               => modified_text = original_text)
    /\ [][mappings' = mappings]_vars

\* a later key rewrites text that only an earlier replacement put there
CascadingSubstitution ==
    /\ pc = "applied"
    /\ Len(mappings) = 2
    /\ ~Contains(original_text, mappings[2][1])
    /\ Contains(AfterEntries(original_text, mappings, 1), mappings[2][1])
    /\ modified_text # AfterEntries(original_text, mappings, 1)

-----------------------------------------------------------------------------
(* Properties of get_modifications *)

Fields ==
    { [label |-> "Address:", original |-> OriginalAddress],
      [label |-> "Phone:", original |-> OriginalPhone],
      [label |-> "Email:", original |-> OriginalEmail] }

BeginsWith(paragraph, label) ==
    strip(paragraph) # <<>> /\ Head(strip(paragraph)) = label

ValueAfterLabel(paragraph) == strip(Tail(strip(paragraph)))

\* C8 (as claimed): every paragraph that begins with a label followed by a
\* value that is not empty has its field's original value mapped to that
\* trimmed value; a field no paragraph begins with has no entry; no
\* replacement value is empty.
LabelledFieldsByPrefix ==
    pc = "returned" =>
        /\ \A i \in 1..Len(doc) : \A f \in Fields :
               (BeginsWith(doc[i], f.label) /\ ValueAfterLabel(doc[i]) # <<>>) =>
                   /\ f.original \in Keys(mappings)
                   /\ Lookup(mappings, f.original) = ValueAfterLabel(doc[i])
        /\ \A f \in Fields :
               (\A i \in 1..Len(doc) : ~BeginsWith(doc[i], f.label)) =>
                   f.original \notin Keys(mappings)
        /\ \A k \in 1..Len(mappings) : mappings[k][2] # <<>>

-----------------------------------------------------------------------------
(* Properties of the font mapping *)

\* C6 (as claimed): the font is one of the three; a descriptor with "Bold"
\* and without "Oblique" gives bold, a descriptor with "Oblique" gives
\* oblique, a descriptor with neither gives regular.
ObliqueDescriptorGivesOblique ==
    pc = "mapped" =>
        /\ font \in {"helvetica-bold", "helvetica-oblique", "helvetica"}
        /\ (Contains(font_name, <<"Bold">>) /\ ~Contains(font_name, <<"Oblique">>))
               => font = "helvetica-bold"
        /\ Contains(font_name, <<"Oblique">>) => font = "helvetica-oblique"
        /\ (~Contains(font_name, <<"Bold">>) /\ ~Contains(font_name, <<"Oblique">>))
               => font = "helvetica"

\* C6 (amended): the font is one of the three; a descriptor with "Bold" gives
\* bold, with or without "Oblique"; a descriptor with "Oblique" and without
\* "Bold" gives oblique; a descriptor with neither gives regular.
BoldBeforeOblique ==
    pc = "mapped" =>
        /\ font \in {"helvetica-bold", "helvetica-oblique", "helvetica"}
        /\ Contains(font_name, <<"Bold">>) => font = "helvetica-bold"
        /\ (Contains(font_name, <<"Oblique">>) /\ ~Contains(font_name, <<"Bold">>))
               => font = "helvetica-oblique"
        /\ (~Contains(font_name, <<"Bold">>) /\ ~Contains(font_name, <<"Oblique">>))
               => font = "helvetica"

BoldObliqueDescriptorMapped ==
    /\ pc = "mapped"
    /\ Contains(font_name, <<"Bold">>)
    /\ Contains(font_name, <<"Oblique">>)
    /\ font = "helvetica-bold"

=============================================================================
